---- MODULE Spec2Model ----
(***************************************************************************)
(* K-means clustering animation: kmeans/animate.py, view_clustering.       *)
(*                                                                         *)
(* Numbers.  The code works on numpy float arrays.  The model is exact:    *)
(* a data point is a tuple of integers and a centroid is the fraction      *)
(* s / n of an integer vector s and a count n (the mean of n points whose  *)
(* sum is s), kept in lowest terms.  n = 0 is the mean of no points, 0/0,  *)
(* which numpy evaluates to NaN.  Distances are compared through their     *)
(* squares, cross-multiplied, so no square root and no division is taken.  *)
(* Python's cluster keys 0..k-1 are the indices 1..k here.                 *)
(*                                                                         *)
(* kmeans/base_funcs.py (_validate, _assign_clusters, _new_centroids) is   *)
(* not among the sources; those three are modelled from the design text.   *)
(***************************************************************************)
EXTENDS Integers, Sequences, FiniteSets, TLC

\* ------------------------------------------------------------ bounds
GridMax == 2
MaxPoints == 3
MaxK == 3
MaxIter == 3

\* ------------------------------------------------------------ arithmetic
RECURSIVE SeqSum(_)
SeqSum(q) == IF Len(q) = 0 THEN 0 ELSE Head(q) + SeqSum(Tail(q))

SumSq(v) == SeqSum([d \in DOMAIN v |-> v[d] * v[d]])

Abs(x) == IF x < 0 THEN -x ELSE x

RECURSIVE Gcd(_, _)
Gcd(a, b) == IF b = 0 THEN a ELSE Gcd(b, a % b)

RECURSIVE Factorial(_)
Factorial(m) == IF m <= 1 THEN 1 ELSE m * Factorial(m - 1)

SetMin(S) == CHOOSE x \in S : \A y \in S : x <= y

RECURSIVE GcdSeq(_)
GcdSeq(q) == IF Len(q) = 0 THEN 0 ELSE Gcd(Abs(Head(q)), GcdSeq(Tail(q)))

\* The fraction s / n in lowest terms; 0/0 stays 0/0 (NaN).
Normalize(s, n) ==
    IF n = 0 THEN [s |-> s, n |-> 0]
    ELSE LET c == Gcd(n, GcdSeq(s))
         IN  [s |-> [d \in DOMAIN s |-> s[d] \div c], n |-> n \div c]

IsNaN(c) == c.n = 0

\* An integer vector as a centroid.
Exact(v) == [s |-> v, n |-> 1]


\* ------------------------------------------------------------ arguments
\* One call of view_clustering: data, k, initial_means (means_given = FALSE
\* is None), ndim (ndim_given = FALSE is None), tolerance = tol_num/tol_den,
\* max_iterations.
MakeCall(d, kk, mg, im, ng, nd, tn, td, mi) ==
    [data |-> d, k |-> kk, means_given |-> mg, initial_means |-> im,
     ndim_given |-> ng, ndim |-> nd, tol_num |-> tn, tol_den |-> td,
     max_iterations |-> mi]

\* The scenario of the design's section 8: tolerance 0.01, max_iterations 10.
ExampleData == << <<0, 0>>, <<0, 1>>, <<10, 10>>, <<10, 11>> >>
ExampleMeans == << <<0, 0>>, <<10, 10>> >>
ExampleCall ==
    MakeCall(ExampleData, 2, TRUE, ExampleMeans, FALSE, 0, 1, 100, 10)

Points2D == {<<x, y>> : x \in 0..GridMax, y \in 0..1}
Key(p) == 2 * p[1] + p[2]
\* Data sets over the grid, as non-decreasing sequences (the order of the rows
\* does not enter the algorithm).
GridData ==
    UNION {{q \in [1..m -> Points2D] :
              \A j \in 1..(m - 1) : Key(q[j]) <= Key(q[j + 1])} : m \in 1..MaxPoints}
GridTolerances == {<<0, 1>>, <<1, 1>>}
\* The caller's initial means on grid data: the corners of the grid.
MeanPoints == {p \in Points2D : p[1] \in {0, GridMax}}

Data3D == << <<0, 0, 0>>, <<1, 0, 1>>, <<4, 4, 4>>, <<5, 4, 3>> >>
Data1D == << <<0>>, <<3>>, <<4>> >>
Data4D == << <<0, 0, 0, 0>>, <<1, 1, 1, 1>>, <<5, 5, 5, 5>> >>
Ragged == << <<0, 0>>, <<1>> >>
\* Three-dimensional runs, runs of a dimension that cannot be drawn, calls the
\* validator rejects, and grid data with sampled initial means.
OtherCalls ==
    {MakeCall(Data3D, kk, FALSE, <<>>, ng, 3, 0, 1, mi) :
        kk \in 1..MaxK, ng \in BOOLEAN, mi \in 1..MaxIter}
    \cup {MakeCall(Data3D, 2, TRUE, << <<0, 0, 0>>, p >>, TRUE, 3, t[1], t[2], mi) :
            p \in {<<4, 4, 4>>, <<0, 0, 0>>, <<1, 0, 1>>}, t \in GridTolerances,
            mi \in 1..MaxIter}
    \cup {MakeCall(d, kk, FALSE, <<>>, FALSE, 0, 0, 1, mi) :
            d \in {Data1D, Data4D}, kk \in 1..2, mi \in 1..MaxIter}
    \cup {MakeCall(Data4D, 2, FALSE, <<>>, TRUE, nd, 0, 1, 2) : nd \in {3, 4}}
    \cup {MakeCall(d, 1, FALSE, <<>>, FALSE, 0, 0, 1, 2) : d \in {<<>>, Ragged}}
    \cup {MakeCall(ExampleData, kk, FALSE, <<>>, FALSE, 0, 0, 1, 2) : kk \in {-1, 0, 5}}
    \cup {MakeCall(ExampleData, 2, TRUE, im, FALSE, 0, 0, 1, 2) :
            im \in {<< <<0, 0>> >>, << <<0, 0>>, <<1, 1, 1>> >>, <<>>}}
    \cup {MakeCall(ExampleData, 2, TRUE, ExampleMeans, FALSE, 0, tn, 1, mi) :
            tn \in {-1, 0}, mi \in {-1, 0, 1}}

    \cup {MakeCall(d, kk, FALSE, <<>>, ng, 2, 0, 1, mi) :
            d \in GridData, kk \in 1..MaxK, ng \in BOOLEAN, mi \in 1..MaxIter}

\* ------------------------------------------------------------ _validate
\* (kmeans/base_funcs.py is not among the sources: from the design, 4.1)
Width(d) == Len(d[1])

ValidationError(c) ==
    IF Len(c.data) = 0 \/ \E j \in DOMAIN c.data : Len(c.data[j]) # Width(c.data)
        THEN "InvalidDataError"
    ELSE IF c.k < 1 \/ c.k > Len(c.data)
        THEN "InvalidClusterCountError"
    ELSE IF c.ndim_given /\ c.ndim # Width(c.data)
        THEN "DimensionMismatchError"
    ELSE IF c.means_given
            /\ (Len(c.initial_means) # c.k
                \/ \E i \in DOMAIN c.initial_means :
                      Len(c.initial_means[i]) # Width(c.data))
        THEN "InvalidCentroidError"
    ELSE IF c.tol_num < 0 \/ c.max_iterations < 1
        THEN "InvalidParameterError"
    ELSE "none"

ValidatorErrors ==
    {"InvalidDataError", "InvalidClusterCountError", "DimensionMismatchError",
     "InvalidCentroidError", "InvalidParameterError"}

\* The initial means _validate may return: the caller's, or k rows of the data
\* drawn without replacement.
MeansChoices(c) ==
    IF c.means_given
        THEN {[i \in 1..c.k |-> Exact(c.initial_means[i])]}
        ELSE {[i \in 1..c.k |-> Exact(c.data[f[i]])] :
                f \in {g \in [1..c.k -> DOMAIN c.data] :
                         \A a, b \in 1..c.k : a # b => g[a] # g[b]}}

\* ------------------------------------------------------------ _assign_clusters
\* (not among the sources: from the design, 4.2)
\* Point x is strictly nearer to centroid a than to centroid b (neither NaN).
Nearer(x, a, b) ==
    SumSq([d \in DOMAIN x |-> a.n * x[d] - a.s[d]]) * b.n * b.n
        < SumSq([d \in DOMAIN x |-> b.n * x[d] - b.s[d]]) * a.n * a.n

\* The index of the minimum distance, the lowest on a tie.  The distance to a
\* NaN centroid is NaN, for which "minimum" is not defined: nan_first is
\* numpy's argmin (the first NaN is the minimum), otherwise NaN compares
\* below nothing and is never the minimum.
Nearest(x, cents, nan_first) ==
    LET nans  == {i \in DOMAIN cents : IsNaN(cents[i])}
        reals == DOMAIN cents \ nans
    IN  IF nans # {} /\ (nan_first \/ reals = {})
            THEN SetMin(nans)
            ELSE SetMin({i \in reals :
                           \A j \in reals : ~Nearer(x, cents[j], cents[i])})

RECURSIVE Pick(_, _, _)
\* The rows of data whose label is i, in the data's order.
Pick(d, labels, i) ==
    IF Len(d) = 0 THEN <<>>
    ELSE IF Head(labels) = i
        THEN <<Head(d)>> \o Pick(Tail(d), Tail(labels), i)
        ELSE Pick(Tail(d), Tail(labels), i)

AssignClusters(d, cents, nan_first) ==
    LET labels == [j \in DOMAIN d |-> Nearest(d[j], cents, nan_first)]
    IN  [i \in DOMAIN cents |-> Pick(d, labels, i)]

\* ------------------------------------------------------------ _new_centroids
\* (not among the sources: from the design, 4.3; it is given the clusters and
\* ndim alone, so an empty cluster's mean is the undefined 0/0)
Mean(cluster, nd) ==
    Normalize([d \in 1..nd |-> SeqSum([j \in DOMAIN cluster |-> cluster[j][d]])],
              Len(cluster))

NewCentroids(cl, nd) == [i \in DOMAIN cl |-> Mean(cl[i], nd)]

\* ------------------------------------------------------------ view_clustering
VARIABLES
    call,           \* the arguments of the call
    pc,             \* where the call is
    data, initial_means, ndim,   \* what _validate returned
    legend_loc, fig, title,      \* the figure
    clusters, old_centroids, centroids,
    iter,           \* loop rounds begun (the for loop's position in its range)
    drawn,          \* the calls of _draw so far: what the renderer was shown
    result,         \* the returned tuple
    error           \* the exception the call ended with

vars == <<call, pc, data, initial_means, ndim, legend_loc, fig, title,
          clusters, old_centroids, centroids, iter, drawn, result, error>>

LegendThreshold == 100000

NoError == [type |-> "none", args |-> <<>>]
Raised(type, args) == [type |-> type, args |-> args]

Init ==
    /\ \/ call \in {ExampleCall} \cup OtherCalls
       \/ \E d \in GridData, kk \in 1..MaxK, t \in GridTolerances, mi \in 1..MaxIter :
             \E im \in [1..kk -> MeanPoints] :
                call = MakeCall(d, kk, TRUE, im, FALSE, 0, t[1], t[2], mi)
    /\ pc = "validate"
    /\ data = call.data
    /\ initial_means = <<>>
    /\ ndim = 0
    /\ legend_loc = "unset"
    /\ fig = "none"
    /\ title = ""
    /\ clusters = <<>>
    /\ old_centroids = <<>>
    /\ centroids = <<>>
    /\ iter = 0
    /\ drawn = <<>>
    /\ result = <<>>
    /\ error = NoError

\* np.linalg.norm(centroids - old_centroids, axis=1)[i] > tolerance, for a
\* tolerance tn/td >= 0.  With a NaN on either side the norm is NaN, and
\* NaN > tolerance is False.
Moved(new, old, tn, td) ==
    /\ ~IsNaN(new)
    /\ ~IsNaN(old)
    /\ SumSq([d \in DOMAIN new.s |-> old.n * new.s[d] - new.n * old.s[d]]) * td * td
          > tn * tn * new.n * new.n * old.n * old.n

\* any(np.where(changes > tolerance, True, False))
AnyMoved(new, old, tn, td) ==
    \E i \in DOMAIN new : Moved(new[i], old[i], tn, td)

\* Validate with the parameter check lost: a negative tolerance or a
\* max_iterations below 1 is let through.
ValidateLax ==
    /\ pc = "validate"
    /\ IF ValidationError(call) \notin {"none", "InvalidParameterError"}
         THEN /\ pc' = "Failed"
              /\ error' = Raised(ValidationError(call), <<>>)
              /\ UNCHANGED <<initial_means, ndim>>
         ELSE /\ pc' = "setup"
              /\ initial_means' \in MeansChoices(call)
              /\ ndim' = Width(call.data)
              /\ UNCHANGED error
    /\ UNCHANGED <<call, data, legend_loc, fig, title, clusters, old_centroids,
                   centroids, iter, drawn, result>>

\* Lines 139-146: _validate raises, or returns (data, initial_means, ndim).
Validate ==
    /\ pc = "validate"
    /\ IF ValidationError(call) # "none"
         THEN /\ pc' = "Failed"
              /\ error' = Raised(ValidationError(call), <<>>)
              /\ UNCHANGED <<initial_means, ndim>>
         ELSE /\ pc' = "setup"
              /\ initial_means' \in MeansChoices(call)
              /\ ndim' = Width(call.data)
              /\ UNCHANGED error
    /\ UNCHANGED <<call, data, legend_loc, fig, title, clusters, old_centroids,
                   centroids, iter, drawn, result>>

\* Setup with the else branch drawing in three dimensions instead of raising.
SetupNoRaise ==
    /\ pc = "setup"
    /\ legend_loc' = IF Len(data) > LegendThreshold THEN "upper right" ELSE "best"
    /\ clusters' = <<>>
    /\ old_centroids' = initial_means
    /\ fig' = IF ndim = 2 THEN "2d" ELSE "3d"
    /\ pc' = "loop"
    /\ UNCHANGED <<call, data, initial_means, ndim, title, centroids, iter,
                   drawn, result, error>>

\* Lines 148-165: the legend's place, the loop's variables, the figure.
Setup ==
    /\ pc = "setup"
    /\ legend_loc' = IF Len(data) > LegendThreshold THEN "upper right" ELSE "best"
    /\ clusters' = <<>>
    /\ old_centroids' = initial_means
    /\ IF ndim = 2
         THEN fig' = "2d" /\ pc' = "loop" /\ UNCHANGED error
         ELSE IF ndim = 3
         THEN fig' = "3d" /\ pc' = "loop" /\ UNCHANGED error
         ELSE /\ pc' = "Failed"
              /\ error' = Raised("ValueError",
                    <<"Only 2-D or 3-D may be animated.">>)
              /\ UNCHANGED fig
    /\ UNCHANGED <<call, data, initial_means, ndim, title, centroids, iter,
                   drawn, result>>

\* Assign with the loop running one round too many.
AssignOneMore ==
    /\ pc = "loop"
    /\ iter <= call.max_iterations
    /\ iter' = iter + 1
    /\ \E nan_first \in BOOLEAN :
          clusters' = AssignClusters(data, old_centroids, nan_first)
    /\ pc' = "update"
    /\ UNCHANGED <<call, data, initial_means, ndim, legend_loc, fig, title,
                   old_centroids, centroids, drawn, result, error>>

\* Assign with the first row of the data left out.
AssignSkipsRow ==
    /\ pc = "loop"
    /\ iter < call.max_iterations
    /\ iter' = iter + 1
    /\ \E nan_first \in BOOLEAN :
          clusters' = AssignClusters(Tail(data), old_centroids, nan_first)
    /\ pc' = "update"
    /\ UNCHANGED <<call, data, initial_means, ndim, legend_loc, fig, title,
                   old_centroids, centroids, drawn, result, error>>

\* Lines 167-168: the next round of the loop begins with the assignment.
Assign ==
    /\ pc = "loop"
    /\ iter < call.max_iterations
    /\ iter' = iter + 1
    /\ \E nan_first \in BOOLEAN :
          clusters' = AssignClusters(data, old_centroids, nan_first)
    /\ pc' = "update"
    /\ UNCHANGED <<call, data, initial_means, ndim, legend_loc, fig, title,
                   old_centroids, centroids, drawn, result, error>>

\* Line 169.
Update ==
    /\ pc = "update"
    /\ centroids' = NewCentroids(clusters, ndim)
    /\ pc' = "draw"
    /\ UNCHANGED <<call, data, initial_means, ndim, legend_loc, fig, title,
                   clusters, old_centroids, iter, drawn, result, error>>

Shown == [clusters |-> clusters, centroids |-> centroids, legend_loc |-> legend_loc]

\* Draw shown the centroids the round began with.
DrawOldCentroids ==
    /\ pc = "draw"
    /\ drawn' = Append(drawn, [Shown EXCEPT !.centroids = old_centroids])
    /\ title' = "k = k"
    /\ pc' = "test"
    /\ UNCHANGED <<call, data, initial_means, ndim, legend_loc, fig, clusters,
                   old_centroids, centroids, iter, result, error>>

\* Line 170, _draw returning (lines 49-93).
Draw ==
    /\ pc = "draw"
    /\ drawn' = Append(drawn, Shown)
    /\ title' = "k = k"
    /\ pc' = "test"
    /\ UNCHANGED <<call, data, initial_means, ndim, legend_loc, fig, clusters,
                   old_centroids, centroids, iter, result, error>>

\* Line 170, _draw raising: nothing in the loop catches it.
DrawRaises ==
    /\ pc = "draw"
    /\ drawn' = Append(drawn, Shown)
    /\ pc' = "Failed"
    /\ error' = Raised("RenderError", <<>>)
    /\ UNCHANGED <<call, data, initial_means, ndim, legend_loc, fig, title,
                   clusters, old_centroids, centroids, iter, result>>

\* Test returning the centroids the round began with.
TestReturnsOld ==
    /\ pc = "test"
    /\ IF AnyMoved(centroids, old_centroids, call.tol_num, call.tol_den)
         THEN /\ old_centroids' = centroids
              /\ pc' = "loop"
              /\ UNCHANGED <<title, result>>
         ELSE /\ title' = "Clustering @ k=k"
              /\ result' = <<clusters, old_centroids, fig>>
              /\ pc' = "Converged"
              /\ UNCHANGED old_centroids
    /\ UNCHANGED <<call, data, initial_means, ndim, legend_loc, fig, clusters,
                   centroids, iter, drawn, error>>

\* Test with line 173 lost: the centroids are not carried to the next round.
TestKeepsOld ==
    /\ pc = "test"
    /\ IF AnyMoved(centroids, old_centroids, call.tol_num, call.tol_den)
         THEN /\ pc' = "loop"
              /\ UNCHANGED <<old_centroids, title, result>>
         ELSE /\ title' = "Clustering @ k=k"
              /\ result' = <<clusters, centroids, fig>>
              /\ pc' = "Converged"
              /\ UNCHANGED old_centroids
    /\ UNCHANGED <<call, data, initial_means, ndim, legend_loc, fig, clusters,
                   centroids, iter, drawn, error>>

\* Test carrying the centroids on in either branch, converged or not.
TestCarriesAlways ==
    /\ pc = "test"
    /\ old_centroids' = centroids
    /\ IF AnyMoved(centroids, old_centroids, call.tol_num, call.tol_den)
         THEN /\ pc' = "loop"
              /\ UNCHANGED <<title, result>>
         ELSE /\ title' = "Clustering @ k=k"
              /\ result' = <<clusters, centroids, fig>>
              /\ pc' = "Converged"
    /\ UNCHANGED <<call, data, initial_means, ndim, legend_loc, fig, clusters,
                   centroids, iter, drawn, error>>

\* Lines 171-177: the convergence test; carry the centroids on, or return.
Test ==
    /\ pc = "test"
    /\ IF AnyMoved(centroids, old_centroids, call.tol_num, call.tol_den)
         THEN /\ old_centroids' = centroids
              /\ pc' = "loop"
              /\ UNCHANGED <<title, result>>
         ELSE /\ title' = "Clustering @ k=k"
              /\ result' = <<clusters, centroids, fig>>
              /\ pc' = "Converged"
              /\ UNCHANGED old_centroids
    /\ UNCHANGED <<call, data, initial_means, ndim, legend_loc, fig, clusters,
                   centroids, iter, drawn, error>>

\* Lines 178-179: the loop's range is used up.
Exhaust ==
    /\ pc = "loop"
    /\ iter >= call.max_iterations
    /\ pc' = "Exhausted"
    /\ error' = Raised("MaxIterationError", <<"Iteration count exceeded.">>)
    /\ UNCHANGED <<call, data, initial_means, ndim, legend_loc, fig, title,
                   clusters, old_centroids, centroids, iter, drawn, result>>

Next ==
    \/ Validate
    \/ Setup
    \/ Assign
    \/ Update
    \/ Draw
    \/ DrawRaises
    \/ Test
    \/ Exhaust

Spec == Init /\ [][Next]_vars

\* ------------------------------------------------------------ properties
Validated == ValidationError(call) = "none" /\ pc # "validate"

NothingRun ==
    /\ iter = 0
    /\ clusters = <<>>
    /\ centroids = <<>>
    /\ drawn = <<>>
    /\ result = <<>>

\* C1 (as amended): a call ends Exhausted exactly when the loop has begun
\* max_iterations rounds and the last of them did not converge: with every one
\* of the max_iterations rounds assigned, updated and drawn, never after fewer
\* and never with a further round, and with MaxIterationError whose only
\* argument is the fixed message.
C1_ExhaustedAfterBound ==
    /\ [](pc = "Exhausted" =>
            /\ iter = call.max_iterations
            /\ Len(drawn) = call.max_iterations
            /\ error = Raised("MaxIterationError", <<"Iteration count exceeded.">>)
            /\ result = <<>>)
    /\ [][(Validated /\ pc = "loop") =>
            IF iter = call.max_iterations
                THEN pc' = "Exhausted"
                ELSE iter < call.max_iterations /\ iter' = iter + 1 /\ pc' = "update"]_vars

C1_Witness == pc = "Exhausted" /\ call.max_iterations >= 2

\* C1 (as stated): the error of an Exhausted call carries the iteration bound
\* that was attempted.
C1_ErrorCarriesBound ==
    pc = "Exhausted" =>
        \E i \in DOMAIN error.args : error.args[i] = ToString(call.max_iterations)

\* The displacement of one centroid is defined and at most the tolerance tn/td.
WithinTolerance(new, old, tn, td) ==
    /\ ~IsNaN(new)
    /\ ~IsNaN(old)
    /\ SumSq([d \in DOMAIN new.s |-> old.n * new.s[d] - new.n * old.s[d]]) * td * td
          <= tn * tn * new.n * new.n * old.n * old.n

C3_ReturnsLastRound ==
    pc = "Converged" =>
        /\ Len(drawn) = iter
        /\ result = <<drawn[iter].clusters, drawn[iter].centroids, fig>>
        /\ result[2] = NewCentroids(result[1], ndim)
        /\ fig \in {"2d", "3d"}

C3_Witness ==
    /\ pc = "Converged"
    /\ iter >= 2
    /\ centroids # old_centroids

\* C3 (as stated): a Converged call returns the partition, the centroids and
\* the number of rounds, and the figure besides.
C3_ReturnsIterationCount ==
    pc = "Converged" =>
        /\ Len(result) = 4
        /\ result[1] = clusters
        /\ result[2] = centroids
        /\ result[3] = iter
        /\ result[4] = fig

Count(p, q) == Cardinality({j \in DOMAIN q : q[j] = p})

Rows(q) == {q[j] : j \in DOMAIN q}

\* cl puts every row of the data in exactly one of the k clusters.
IsPartition(cl) ==
    /\ DOMAIN cl = 1..call.k
    /\ \A i \in DOMAIN cl : Rows(cl[i]) \subseteq Rows(data)
    /\ \A p \in Rows(data) :
          SeqSum([i \in DOMAIN cl |-> Count(p, cl[i])]) = Count(p, data)

\* C6: in every round the partition holds every row of the data exactly once
\* (a row that occurs m times in the data occurs m times over all clusters),
\* in k clusters, some of which may be empty.
C6_PartitionCoversData ==
    /\ iter >= 1 => IsPartition(clusters)
    /\ \A r \in DOMAIN drawn : IsPartition(drawn[r].clusters)

C6_Witness ==
    /\ pc = "test"
    /\ iter >= 2
    /\ \E i \in DOMAIN clusters : clusters[i] = <<>>
    /\ \E i \in DOMAIN clusters : Len(clusters[i]) >= 2
    /\ Cardinality(Rows(data)) < Len(data)

\* The squared distances of a cluster's rows to its centroid c, times m * m
\* (m a multiple of c.n).
ClusterCost(cl, c, m) ==
    SeqSum([j \in DOMAIN cl |->
              SumSq([d \in DOMAIN c.s |-> c.n * cl[j][d] - c.s[d]])
                 * (m \div c.n) * (m \div c.n)])

\* The assignment cost of a completed round, times (Len(data)!)^2.
Cost(shown) ==
    SeqSum([i \in DOMAIN shown.clusters |->
              ClusterCost(shown.clusters[i], shown.centroids[i],
                          Factorial(Len(data)))])

C8_Example ==
    call = ExampleCall =>
        /\ pc # "Exhausted"
        /\ iter <= 2
        /\ (pc = "test" /\ iter = 1) =>
              AnyMoved(centroids, old_centroids, call.tol_num, call.tol_den)
        /\ pc = "Converged" =>
              /\ iter = 2
              /\ result[1] = << << <<0, 0>>, <<0, 1>> >>, << <<10, 10>>, <<10, 11>> >> >>
              /\ result[2] = << [s |-> <<0, 1>>, n |-> 2], [s |-> <<20, 21>>, n |-> 2] >>

C8_Witness == call = ExampleCall /\ pc = "Converged"

\* C9: no call ends with an error of the renderer: a _draw that raises does
\* not abort the clustering.
C9_RenderFailureDoesNotAbort == error.type # "RenderError"

\* C10: the renderer is shown every round exactly once, after the round's
\* assignment and update and before its convergence test, with the round's
\* partition and the centroids computed from it; a call that ends Converged
\* or Exhausted after n rounds has shown n rounds.
C10_DrawnOncePerRound ==
    /\ pc \in {"update", "draw"} => Len(drawn) = iter - 1
    /\ pc \in {"test", "loop", "Converged", "Exhausted"} => Len(drawn) = iter
    /\ pc \in {"test", "Converged"} =>
          /\ drawn[iter].clusters = clusters
          /\ drawn[iter].centroids = centroids
    /\ (pc \in {"loop", "Exhausted"} /\ iter >= 1) =>
          /\ drawn[iter].clusters = clusters
          /\ drawn[iter].centroids = old_centroids
    /\ \A r \in DOMAIN drawn :
          drawn[r].centroids = NewCentroids(drawn[r].clusters, ndim)

C10_Witness == pc = "Converged" /\ Len(drawn) = 3

\* The centroids a round began with, as the rounds before it left them: the
\* initial means in the first round, else the centroids shown in the round
\* before.
CarriedInto(r) == IF r = 1 THEN initial_means ELSE drawn[r - 1].centroids

\* Row x lies in the right cluster i for the centroids cents: its distance to
\* centroid i is defined, no centroid is nearer, and none of a lower index is
\* as near.
RightlyPlaced(x, i, cents) ==
    /\ ~IsNaN(cents[i])
    /\ \A m \in DOMAIN cents :
          ~IsNaN(cents[m]) =>
             /\ ~Nearer(x, cents[m], cents[i])
             /\ m < i => Nearer(x, cents[i], cents[m])

AssignedAgainst(cl, cents) ==
    \E nan_first \in BOOLEAN : cl = AssignClusters(data, cents, nan_first)

\* The state half of C13: what is carried, assigned against and returned.
CarriedRight ==
    /\ pc = "loop" => old_centroids = CarriedInto(iter + 1)
    /\ pc \in {"update", "draw", "test", "Converged"} =>
          /\ old_centroids = CarriedInto(iter)
          /\ AssignedAgainst(clusters, old_centroids)
    /\ pc \in {"draw", "test", "Converged"} =>
          centroids = NewCentroids(clusters, ndim)
    /\ pc = "Converged" =>
          /\ result[2] = NewCentroids(result[1], ndim)
          /\ AssignedAgainst(result[1], old_centroids)

\* C13: the carried centroids are set to the initial means before the loop
\* and replaced only by a test that found movement, by that round's fresh
\* centroids; each round assigns against the centroids of the round before
\* (the first against the initial means); the centroids returned are the
\* means of the partition returned, which was assigned against the centroids
\* carried into the last round.
C13_CarriedCentroids ==
    /\ []CarriedRight
    /\ [][old_centroids' # old_centroids =>
             \/ pc = "setup" /\ old_centroids' = initial_means
             \/ /\ pc = "test"
                /\ AnyMoved(centroids, old_centroids, call.tol_num, call.tol_den)
                /\ old_centroids' = centroids]_vars

C13_Witness ==
    /\ pc = "Converged"
    /\ iter >= 2
    /\ old_centroids # initial_means
    /\ result[2] # old_centroids

\* C14: a call runs at most max_iterations rounds and ends in one of three
\* ways only: rejected before any round with a validation or dimension error,
\* Converged with a result and no error, or Exhausted with the iteration error
\* and no result.
C14_OneTerminalOutcome ==
    /\ pc \notin {"validate", "Failed"} => iter <= call.max_iterations
    /\ pc = "Failed" =>
          /\ error.type \in ValidatorErrors \cup {"ValueError"}
          /\ NothingRun
    /\ pc = "Converged" => result # <<>> /\ error = NoError
    /\ pc = "Exhausted" =>
          /\ result = <<>>
          /\ error.type = "MaxIterationError"
          /\ iter = call.max_iterations
====
